---- MODULE Spec2Model ----
(***************************************************************************)
(* Model of src/laundry_classifier.py: the per-frame loop of main(), the   *)
(* pure result interpreters process() and process_winner(), and the two    *)
(* trigger counters `sensing` and `rinse`.                                 *)
(*                                                                         *)
(* Probabilities and thresholds are integers in thousandths (0.104 is      *)
(* 104).  Python's 0-based tensor indices are the 1-based positions of the *)
(* sequences here.  The cookie dictionaries of lines 143 and 156 are not   *)
(* valid Python literals; they are read as the fixed set of cookies the    *)
(* two requests carry, which no modelled step depends on.                  *)
(***************************************************************************)
EXTENDS Integers, Sequences, FiniteSets, TLC

\* ---------------------------------------------------------------- bounds
\* Largest num_frames of a run (the loop is `for result in run(num_frames)`).
MaxFrames == 21
\* A short run, so that the end of the loop is reached early as well.
ShortFrames == 2

\* ------------------------------------------------------ program constants
\* The trigger count of `if sensing == 10:` / `if rinse == 10:`.
TriggerCount == 10

\* The label file of the scenario: one label per line, in tensor order.
labels == <<"sensing", "rinse", "idle">>

\* Confidence scores a frame may carry, in thousandths.
ProbValues == {50, 104, 500}
\* --threshold values, in thousandths (0.1 is the default).
ThresholdValues == {100, 300}
\* --top_k values (3 is the default; a negative value is accepted by argparse).
TopKValues == {-1, 0, 1, 3}
\* --num_frames values.
NumFramesValues == {ShortFrames, MaxFrames}
\* What requests.get can do: return a response (any status) or raise.
NotifyOutcomes == {"200", "500", "raise"}

\* Tensor data of one frame: depth equal to the label count, or one short.
Tensors ==
    [1..Len(labels) -> ProbValues] \cup [1..(Len(labels) - 1) -> ProbValues]

\* The frames of a long run: one clear winner per label, no label above the
\* threshold, and a tensor one short of the label count.
StreakTensors ==
    {<<500, 50, 50>>, <<50, 500, 50>>, <<50, 50, 500>>, <<50, 50, 50>>,
     <<500, 50>>}
\* The defaults of --threshold and --top_k.
DefaultThreshold == 100
DefaultTopK == 3

VARIABLES
    pc,               \* "loop" | "done" | "crashed"
    error,            \* the uncaught exception that ended the process
    num_frames,       \* args.num_frames
    threshold,        \* args.threshold
    top_k,            \* args.top_k
    frames,           \* results yielded so far by camera_inference.run
    probs,            \* tensor.data of the current frame
    processed_result, \* value of process(...) in the current frame
    result_winner,    \* value of process_winner(...), kept across frames
    sensing,          \* the counter `sensing`
    rinse,            \* the counter `rinse`
    frame_log,        \* what the current frame did, in program order
    winner_now,       \* history: the winner computed in the current frame
    outcome,          \* history: what requests.get did in the current frame
    won,              \* history: frames won so far, per watched label
    notified          \* history: requests.get calls so far, per watched label

vars == <<pc, error, num_frames, threshold, top_k, frames, probs,
          processed_result, result_winner, sensing, rinse, frame_log,
          winner_now, outcome, won, notified>>

Watched == {"sensing", "rinse"}

\* ------------------------------------------------------ pure interpreters

\* `[pair for pair in enumerate(probs) if pair[1] > threshold]`
RECURSIVE FilterFrom(_, _, _)
FilterFrom(data, thr, i) ==
    IF i > Len(data) THEN <<>>
    ELSE IF data[i] > thr
         THEN <<(<<i, data[i]>>)>> \o FilterFrom(data, thr, i + 1)
         ELSE FilterFrom(data, thr, i + 1)

Filter(data, thr) == FilterFrom(data, thr, 1)

\* Mutant of InsertDesc: pair p goes before the pairs of equal key, so the
\* sort is not stable.
RECURSIVE InsertDescUnstable(_, _)
InsertDescUnstable(sorted, p) ==
    IF sorted = <<>> THEN <<p>>
    ELSE IF Head(sorted)[2] > p[2]
         THEN <<Head(sorted)>> \o InsertDescUnstable(Tail(sorted), p)
         ELSE <<p>> \o sorted

\* One step of the stable descending sort: pair p goes after every pair
\* whose key is greater than or equal to its own.
RECURSIVE InsertDesc(_, _)
InsertDesc(sorted, p) ==
    IF sorted = <<>> THEN <<p>>
    ELSE IF Head(sorted)[2] >= p[2]
         THEN <<Head(sorted)>> \o InsertDesc(Tail(sorted), p)
         ELSE <<p>> \o sorted

\* `sorted(pairs, key=lambda pair: pair[1], reverse=True)`
RECURSIVE SortedDescFrom(_, _, _)
SortedDescFrom(pairs, acc, i) ==
    IF i > Len(pairs) THEN acc
    ELSE SortedDescFrom(pairs, InsertDesc(acc, pairs[i]), i + 1)

SortedDesc(pairs) == SortedDescFrom(pairs, <<>>, 1)

\* Mutant of Slice: the slice keeps one pair too many (`pairs[0:top_k + 1]`).
SliceOneMore(pairs, k) ==
    SubSeq(pairs, 1, IF k + 1 > Len(pairs) THEN Len(pairs) ELSE k + 1)

\* `pairs[0:top_k]`, with Python's reading of a negative stop.
Slice(pairs, k) ==
    LET stop == IF k < 0
                THEN (IF Len(pairs) + k < 0 THEN 0 ELSE Len(pairs) + k)
                ELSE (IF k > Len(pairs) THEN Len(pairs) ELSE k)
    IN  SubSeq(pairs, 1, stop)

\* `'%.2f' % prob`: thousandths rounded to hundredths.
Fmt2(p) == (p + 5) \div 10

\* `assert shape.depth == len(labels)` of process and process_winner.
ShapeOk(data, labs) == Len(data) = Len(labs)

\* The pairs process() keeps (the local `pairs` after line 48).
RankedPairs(data, thr, k) == Slice(SortedDesc(Filter(data, thr)), k)

\* process(): `' %s (%.2f)' % (labels[index], prob)` for each kept pair.
process(data, labs, thr, k) ==
    LET pairs == RankedPairs(data, thr, k)
    IN  [j \in 1..Len(pairs) |->
            [label |-> labs[pairs[j][1]], shown |-> Fmt2(pairs[j][2])]]

\* process_winner(): `winner = pairs[0]` raises IndexError on an empty list.
WinnerRaises(data, thr) == Filter(data, thr) = <<>>

\* Mutant of process_winner: the sort has lost `reverse=True`, so `pairs[0]`
\* is the pair of least confidence above the threshold.
process_winner_ascending(data, labs, thr) ==
    labs[SortedDesc(Filter(data, thr))[Len(Filter(data, thr))][1]]

process_winner(data, labs, thr) ==
    labs[SortedDesc(Filter(data, thr))[1][1]]

\* ------------------------------------------------------------- the trigger

\* Mutant of Bump: the comparison ignores which watched label won.
BumpAnyWatched(count, winner, label) ==
    IF winner \in Watched THEN count + 1 ELSE count

\* `if result_winner == 'sensing': sensing += 1` (and the same for rinse).
Bump(count, winner, label) ==
    IF winner = label THEN count + 1 ELSE count

\* Mutant of Fires: the test of the comment above line 140 (`> 10`).
FiresAbove(count) == count > TriggerCount

\* `if sensing == 10:` (and the same for rinse).
Fires(count) == count = TriggerCount

\* Mutant of AfterFire: the counter is reset after the GET request.
AfterFireReset(count) == 0

\* Mutant of AfterFire: the increment after the GET request is missing.
AfterFireNoSkip(count) == count

\* `sensing += 1` after the GET request has returned.
AfterFire(count) == count + 1

\* Lines 129-131 / 135-137 and 140-148 / 151-161 for one counter: the count
\* after the frame, whether requests.get was called, and whether it raised.
Trigger(count, winner, label, out) ==
    LET c1 == Bump(count, winner, label)
    IN  IF ~Fires(c1)
        THEN [count |-> c1, called |-> FALSE, raised |-> FALSE,
              log |-> IF c1 # count THEN <<"count_" \o label>> ELSE <<>>]
        ELSE IF out = "raise"
        THEN [count |-> c1, called |-> TRUE, raised |-> TRUE,
              log |-> (IF c1 # count THEN <<"count_" \o label>> ELSE <<>>)
                      \o <<"notify_" \o label>>]
        ELSE [count |-> AfterFire(c1), called |-> TRUE, raised |-> FALSE,
              log |-> (IF c1 # count THEN <<"count_" \o label>> ELSE <<>>)
                      \o <<"notify_" \o label, "print_r", "skip_" \o label>>]

NoOutcome == [sensing |-> "none", rinse |-> "none"]

\* ---------------------------------------------------------------- actions

\* The state at line 104, before the first frame, for given arguments.
Start(nf, thr, k) ==
    /\ pc = "loop"
    /\ error = "none"
    /\ num_frames = nf
    /\ threshold = thr
    /\ top_k = k
    /\ frames = 0
    /\ probs = <<>>
    /\ processed_result = <<>>
    /\ result_winner = "unset"
    /\ sensing = 0
    /\ rinse = 0
    /\ frame_log = <<>>
    /\ winner_now = "none"
    /\ outcome = NoOutcome
    /\ won = [sensing |-> 0, rinse |-> 0]
    /\ notified = [sensing |-> 0, rinse |-> 0]

\* Long runs with the default threshold and top_k.
Init ==
    \E nf \in NumFramesValues : Start(nf, DefaultThreshold, DefaultTopK)

\* Short runs over every tensor, threshold and top_k.
InitInterp ==
    \E thr \in ThresholdValues, k \in TopKValues : Start(ShortFrames, thr, k)

\* The frame fails the assertion of process(): the process ends there.
FrameAssert(data) ==
    /\ pc' = "crashed"
    /\ error' = "AssertionError"
    /\ frame_log' = <<"assert">>
    /\ winner_now' = "none"
    /\ outcome' = NoOutcome
    /\ UNCHANGED <<processed_result, result_winner, sensing, rinse, won,
                   notified>>

\* process() returns, then `pairs[0]` of process_winner() raises IndexError.
FrameNoWinner(data) ==
    /\ pc' = "crashed"
    /\ error' = "IndexError"
    /\ processed_result' = process(data, labels, threshold, top_k)
    /\ frame_log' = <<"process", "index_error">>
    /\ winner_now' = "none"
    /\ outcome' = NoOutcome
    /\ UNCHANGED <<result_winner, sensing, rinse, won, notified>>

\* Both interpreters return; the counters and the two triggers run.
FrameWinner(data, outS, outR) ==
    LET w == process_winner(data, labels, threshold)
        s == Trigger(sensing, w, "sensing", outS)
        \* the rinse trigger (lines 151-161) runs only if line 145 returned
        r == IF s.raised
             THEN [count |-> Bump(rinse, w, "rinse"), called |-> FALSE,
                   raised |-> FALSE, log |-> <<>>]
             ELSE Trigger(rinse, w, "rinse", outR)
        \* program order: both counts (129-137), then both triggers (140-161)
        counts == SelectSeq(s.log \o r.log,
                            LAMBDA e : e \in {"count_sensing", "count_rinse"})
        rest == SelectSeq(s.log \o r.log,
                          LAMBDA e : e \notin {"count_sensing", "count_rinse"})
    IN  /\ processed_result' = process(data, labels, threshold, top_k)
        /\ result_winner' = w
        /\ winner_now' = w
        /\ sensing' = s.count
        /\ rinse' = r.count
        /\ frame_log' = <<"process", "process_winner", "print_winner">>
                         \o counts \o rest
        /\ outcome' = [sensing |-> IF s.called THEN outS ELSE "none",
                       rinse |-> IF r.called THEN outR ELSE "none"]
        /\ won' = [L \in Watched |-> IF w = L THEN won[L] + 1 ELSE won[L]]
        /\ notified' = [sensing |-> notified.sensing
                                       + (IF s.called THEN 1 ELSE 0),
                        rinse |-> notified.rinse
                                       + (IF r.called THEN 1 ELSE 0)]
        /\ IF s.raised \/ r.raised
           THEN pc' = "crashed" /\ error' = "ConnectionError"
           ELSE UNCHANGED <<pc, error>>

\* One iteration of `for result in camera_inference.run(args.num_frames)`.
Frame(data, outS, outR) ==
    /\ pc = "loop"
    /\ frames < num_frames
    /\ frames' = frames + 1
    /\ probs' = data
    /\ UNCHANGED <<num_frames, threshold, top_k>>
    /\ IF ~ShapeOk(data, labels) THEN FrameAssert(data)
       ELSE IF WinnerRaises(data, threshold) THEN FrameNoWinner(data)
       ELSE FrameWinner(data, outS, outR)

\* run() has yielded num_frames results: the loop and the process end.
LoopEnd ==
    /\ pc = "loop"
    /\ frames = num_frames
    /\ pc' = "done"
    /\ UNCHANGED <<error, num_frames, threshold, top_k, frames, probs,
                   processed_result, result_winner, sensing, rinse,
                   frame_log, winner_now, outcome, won, notified>>

Next ==
    \/ \E data \in StreakTensors, outS \in NotifyOutcomes,
          outR \in NotifyOutcomes :
          Frame(data, outS, outR)
    \/ LoopEnd

Spec == Init /\ [][Next]_vars

NextInterp ==
    \/ \E data \in Tensors, outS \in NotifyOutcomes, outR \in NotifyOutcomes :
          Frame(data, outS, outR)
    \/ LoopEnd

SpecInterp == InitInterp /\ [][NextInterp]_vars

TypeOK ==
    /\ pc \in {"loop", "done", "crashed"}
    /\ error \in {"none", "AssertionError", "IndexError", "ConnectionError"}
    /\ sensing \in 0..(MaxFrames + 1)
    /\ rinse \in 0..(MaxFrames + 1)
    /\ frames \in 0..MaxFrames

\* ------------------------------------------------------- claim vocabulary

Counter(L) == IF L = "sensing" THEN sensing ELSE rinse
CounterNext(L) == IF L = "sensing" THEN sensing' ELSE rinse'

\* The step is one iteration of the frame loop.
IsFrame == frames' = frames + 1

\* requests.get was called for L in the current frame.
Fired(L) == outcome[L] # "none"

\* The position of a label in the label file.
IndexOf(label) == CHOOSE i \in 1..Len(labels) : labels[i] = label

\* The confidence behind an entry of process()'s output.
ConfOf(entry) == probs[IndexOf(entry.label)]

\* process() has returned in the current frame.
ProcessReturned == frames > 0 /\ ShapeOk(probs, labels)

\* process_winner() has returned a label in the current frame.
WinnerReturned == ProcessReturned /\ error # "IndexError"

\* ----------------------------------------------------------------- claims

\* C1: after k frames won by a watched label L, notify(L) has been invoked
\* exactly floor(k / 10) times.
C1_OncePerTen ==
    \A L \in Watched : notified[L] = won[L] \div TriggerCount

\* C2: the counter of L never decreases between two fires, it is 0 at the
\* end of a frame in which notify(L) was invoked, and the next frame won by L
\* ends with the counter at 1.
C2_ResetAfterFire ==
    [][IsFrame =>
         \A L \in Watched :
            /\ Fired(L)' => CounterNext(L) = 0
            /\ ~Fired(L)' => CounterNext(L) >= Counter(L)
            /\ (Fired(L) /\ winner_now' = L) => CounterNext(L) = 1]_vars

C4_OtherCountersUntouched ==
    [][IsFrame =>
         /\ winner_now' \notin Watched => UNCHANGED <<sensing, rinse>>
         /\ winner_now' = "sensing" => rinse' = rinse
         /\ winner_now' = "rinse" => sensing' = sensing]_vars

C4_Witness ==
    /\ winner_now = "idle"
    /\ sensing = TriggerCount + 1
    /\ rinse > 0

\* C5: when no probability is above the threshold, rank returns the empty
\* list, winner returns the no-winner value without raising, and the loop
\* goes on to the next frame.
C5_NoWinnerIsNoError ==
    (ProcessReturned /\ \A i \in 1..Len(probs) : probs[i] <= threshold)
        => /\ processed_result = <<>>
           /\ winner_now = "none"
           /\ error = "none"
           /\ pc # "crashed"

\* C6: a frame whose tensor depth differs from the label count is skipped:
\* the process does not stop and the following frames are processed.
C6_ShapeMismatchSkipped ==
    (frames > 0 /\ ~ShapeOk(probs, labels))
        => /\ error = "none"
           /\ pc # "crashed"

\* C7: when notify(L) fails, by a transport error or a non-success status,
\* the loop continues and the counter of L ends the frame where a successful
\* notify leaves it.
C7_FailedNotifyRecovered ==
    \A L \in Watched :
        outcome[L] \in {"500", "raise"}
            => /\ pc # "crashed"
               /\ error = "none"
               /\ Counter(L) = AfterFire(TriggerCount)

\* C8: for top_k >= 0, rank returns at most top_k entries, each with a
\* confidence strictly above the threshold, in descending order of confidence.
C8_RankBounded ==
    (ProcessReturned /\ top_k >= 0)
        => /\ Len(processed_result) <= top_k
           /\ \A j \in 1..Len(processed_result) :
                 ConfOf(processed_result[j]) > threshold
           /\ \A j \in 1..(Len(processed_result) - 1) :
                 /\ ConfOf(processed_result[j])
                       >= ConfOf(processed_result[j + 1])
                 /\ processed_result[j].shown >= processed_result[j + 1].shown

C8_Witness ==
    /\ ProcessReturned
    /\ top_k = 1
    /\ Len(processed_result) = 1
    /\ \E i \in 1..Len(probs) : probs[i] <= threshold
    /\ \E i \in 1..Len(probs) :
          /\ probs[i] > threshold
          /\ probs[i] < ConfOf(processed_result[1])

\* C9 (as claimed): for every top_k, read over the top_k >= 0 that rank is
\* specified for, the label winner returns is the label of an entry of rank's
\* output, the one of maximum confidence.
C9_WinnerInRank ==
    (WinnerReturned /\ top_k >= 0)
        => /\ processed_result # <<>>
           /\ winner_now = processed_result[1].label
           /\ \A i \in 1..Len(probs) : probs[i] <= probs[IndexOf(winner_now)]

\* C9 (amended): for top_k >= 1, the label winner returns is the label of the
\* first entry of rank's output, and no confidence of the frame is above it.
C9_WinnerHeadsRank ==
    (WinnerReturned /\ top_k >= 1)
        => /\ processed_result # <<>>
           /\ winner_now = processed_result[1].label
           /\ \A i \in 1..Len(probs) : probs[i] <= probs[IndexOf(winner_now)]

C9_Witness ==
    /\ WinnerReturned
    /\ top_k = 1
    /\ winner_now = "idle"
    /\ probs[1] > threshold
    /\ processed_result[1].label = "idle"

C12_TiesKeepIndexOrder ==
    /\ ProcessReturned =>
          \A j \in 1..(Len(processed_result) - 1) :
             ConfOf(processed_result[j]) = ConfOf(processed_result[j + 1])
                => IndexOf(processed_result[j].label)
                      < IndexOf(processed_result[j + 1].label)
    /\ WinnerReturned =>
          \A i \in 1..Len(probs) :
             probs[i] >= probs[IndexOf(winner_now)] => IndexOf(winner_now) <= i

C12_Witness ==
    /\ WinnerReturned
    /\ Len(processed_result) = 3
    /\ probs[2] = probs[3]
    /\ probs[1] < probs[2]
    /\ winner_now = "rinse"
    /\ processed_result[2].label = "idle"

\* The places of event e in a frame's log.
LogPlaces(log, e) == {i \in 1..Len(log) : log[i] = e}

C14_ExactlyNFrames ==
    pc # "loop" => (pc = "done" /\ frames = num_frames)

C17_CounterTracksWins ==
    error # "ConnectionError" =>
        \A L \in Watched :
           /\ Counter(L) # TriggerCount
           /\ Counter(L) = IF won[L] < TriggerCount THEN won[L]
                           ELSE won[L] + 1

C17_Witness ==
    /\ pc = "loop"
    /\ won.sensing = TriggerCount + 2
    /\ sensing = TriggerCount + 3
    /\ won.rinse = TriggerCount - 1
    /\ rinse = TriggerCount - 1

====
